---- MODULE Spec2Model ----
(***************************************************************************)
(* Model of the two server programs of the repository:                     *)
(*   src/index.js          (variant "index")                               *)
(*   src/unnamed/part_000  (variant "part000")                             *)
(* Both start an Express process, serve POST /create-ad, validate the      *)
(* request and run a chain of remote creation calls, each wrapped in       *)
(* retryRequest.                                                           *)
(***************************************************************************)
EXTENDS Integers, Sequences, FiniteSets, TLC

(* ------------------------------------------------------------------ *)
(* Bounds of the model                                                 *)
(* ------------------------------------------------------------------ *)

\* The largest `retries` argument the retryRequest harness passes.
MaxRetries == 4

\* The largest number of request fields that differ from the well-formed
\* base request in one request body.
MaxBad == 2

\* The largest number of remote calls that fail while two requests run
\* concurrently.
MaxFaults == 2

(* ------------------------------------------------------------------ *)
(* Values                                                              *)
(* ------------------------------------------------------------------ *)

Variants == {"index", "part000"}

\* JavaScript's undefined, for string-valued things.
undefined == "undefined"

\* The requests the process may serve.
ReqIds == {1, 2}

\* retryRequest's default `retries` parameter.
DefaultRetries == 3

\* The rate-limit error code part_000 retries on.
RateLimitCode == 17

TextFields == {"campaignName", "adSetName", "adName", "creativeTitle", "creativeBody"}
Fields == TextFields \cup {"pageId", "link", "imageUrl"}

\* The order the validation chains are declared in: errors.array() keeps it.
FieldOrder ==
  << "campaignName", "adSetName", "adName", "creativeTitle", "creativeBody",
     "pageId", "link", "imageUrl" >>

GoodUrl == "https://example.com"
BadUrl == "not a url"

\* The values a field takes: absent, empty, whitespace only, plain text and,
\* for campaignName, text with an HTML special character.
FieldValues(f) ==
  IF f = "campaignName" THEN {undefined, "", " ", "Sale", "A&B"}
  ELSE IF f \in TextFields THEN {undefined, "", " ", "Sale"}
  ELSE IF f = "pageId" THEN {undefined, "", "abc", "123456"}
  ELSE {undefined, BadUrl, GoodUrl}

\* The example request of the spec, with an image URL.
BaseBody ==
  [f \in Fields |->
     IF f \in TextFields THEN "Sale"
     ELSE IF f = "pageId" THEN "123456"
     ELSE GoodUrl]

Differing(b) == {f \in Fields : b[f] # BaseBody[f]}

\* Request bodies: the base request with at most MaxBad fields changed.
Bodies ==
  LET Changed(D) ==
        { [f \in Fields |-> IF f \in D THEN c[f] ELSE BaseBody[f]] :
            c \in [D -> UNION {FieldValues(f) : f \in D}] }
  IN { b \in UNION { Changed(D) :
                       D \in {S \in SUBSET Fields : Cardinality(S) <= MaxBad} } :
         \A f \in Fields : b[f] \in FieldValues(f) }

(* ------------------------------------------------------------------ *)
(* express-validator: validators and sanitizers                        *)
(* ------------------------------------------------------------------ *)

\* validator's toString: undefined and null become the empty string.
ToStr(v) == IF v = undefined THEN "" ELSE v

\* notEmpty(): the value, as a string, has length > 0 (whitespace counts).
NotEmpty(v) == ToStr(v) # ""

\* isString(): the value itself is a string.
IsString(v) == v # undefined

\* isNumeric(): the value, as a string, is a number.
IsNumeric(v) == ToStr(v) = "123456"

\* isURL(): the value, as a string, is a URL.
IsURL(v) == ToStr(v) = GoodUrl

\* trim(): whitespace removed at both ends.
Trim(v) == IF v = " " THEN "" ELSE v

\* escape(): HTML special characters replaced by entities.
Escape(v) == IF v = "A&B" THEN "A&amp;B" ELSE v

\* The withMessage texts of part_000's chains for the text fields.
RequiredMessage(f) ==
  CASE f = "campaignName" -> "Campaign name is required"
    [] f = "adSetName" -> "Ad set name is required"
    [] f = "adName" -> "Ad name is required"
    [] f = "creativeTitle" -> "Creative title is required"
    [] f = "creativeBody" -> "Creative body is required"

\* The validation errors one field's chain produces, one per failing validator.
FieldErrors(v, f, b) ==
  LET val == b[f]
      E(msg) == << [path |-> f, msg |-> msg] >>
  IN IF v = "index"
     THEN IF f \in TextFields
            THEN IF NotEmpty(val) THEN << >> ELSE E("Invalid value")
          ELSE IF f = "pageId"
            THEN (IF NotEmpty(val) THEN << >> ELSE E("Invalid value"))
                 \o (IF IsString(val) THEN << >> ELSE E("Invalid value"))
          ELSE IF f = "link"
            THEN IF IsURL(val) THEN << >> ELSE E("Invalid URL")
          ELSE IF IsURL(val) THEN << >> ELSE E("Invalid image URL")
     ELSE IF f \in TextFields
            THEN IF NotEmpty(val) THEN << >> ELSE E(RequiredMessage(f))
          ELSE IF f = "pageId"
            THEN IF IsNumeric(val) THEN << >> ELSE E("Page ID must be numeric")
          ELSE << >>

RECURSIVE ErrorsFrom(_, _, _)
ErrorsFrom(v, b, k) ==
  IF k > Len(FieldOrder) THEN << >>
  ELSE FieldErrors(v, FieldOrder[k], b) \o ErrorsFrom(v, b, k + 1)

\* validationResult(req).array()
validationResult(v, b) == ErrorsFrom(v, b, 1)

\* req.body after the chains' sanitizers have run.
Sanitized(v, b) ==
  [f \in Fields |->
     IF f \in TextFields /\ b[f] # undefined
       THEN IF v = "index" THEN Escape(Trim(b[f])) ELSE Trim(b[f])
     ELSE b[f]]

(* ------------------------------------------------------------------ *)
(* Remote API: references and errors                                   *)
(* ------------------------------------------------------------------ *)

Steps == {"uploadImage", "createCampaign", "createAdSet", "createAdCreative", "createAd"}
CreateSteps == Steps \ {"uploadImage"}

\* The position of a step in the chain.
StepIndex(op) ==
  CASE op = "uploadImage" -> 1
    [] op = "createCampaign" -> 2
    [] op = "createAdSet" -> 3
    [] op = "createAdCreative" -> 4
    [] op = "createAd" -> 5

\* No reference yet (an unassigned local).
NoRef == [kind |-> "none", n |-> 0]

\* The object a successful remote call returns; `id` is the reference itself.
Ref(op, n) == [kind |-> op, n |-> n]

NoError ==
  [kind |-> "none", code |-> 0, message |-> undefined,
   respMessage |-> undefined, fbtrace_id |-> undefined, at |-> 0]

\* The error objects a remote creation call may throw on attempt `at`
\* (`at` tells the error objects of different attempts apart). code 0 stands
\* for an error without a numeric code; respMessage and fbtrace_id are
\* error.response.data.error.message and .fbtrace_id.
RemoteErrors(at) ==
  { [kind |-> "rate_limit", code |-> RateLimitCode,
     message |-> "Request failed with status code 400",
     respMessage |-> "User request limit reached", fbtrace_id |-> "TRC17", at |-> at],
    [kind |-> "permanent", code |-> 100,
     message |-> "Request failed with status code 400",
     respMessage |-> "Invalid targeting spec", fbtrace_id |-> "TRC99", at |-> at],
    [kind |-> "network", code |-> 0,
     message |-> "socket hang up",
     respMessage |-> undefined, fbtrace_id |-> undefined, at |-> at] }

\* new Error(message)
Error(message) ==
  [kind |-> "Error", code |-> 0, message |-> message,
   respMessage |-> undefined, fbtrace_id |-> undefined, at |-> 0]

\* The outcomes of the fetch in uploadImage.
UploadOutcomes == {"ok", "data_error", "no_hash", "network"}

(* ------------------------------------------------------------------ *)
(* retryRequest                                                        *)
(* ------------------------------------------------------------------ *)

\* A retryRequest call that is not running.
IdleFrame ==
  [state |-> "idle", i |-> 0, retries |-> 0, value |-> NoRef, error |-> NoError]

\* The loop test i < retries: past the last iteration the function returns
\* undefined.
LoopTest(f) ==
  IF f.i < f.retries THEN [f EXCEPT !.state = "calling"]
  ELSE [f EXCEPT !.state = "resolved", !.value = NoRef]

\* retryRequest(fn, retries) entered: i = 0.
RetryFrame(retries) ==
  LoopTest([IdleFrame EXCEPT !.retries = retries])

\* A retry test that, in both programs, loops on rate-limit errors only.
ShouldRetry_RateLimitOnly(v, f, err) ==
  err.code = RateLimitCode /\ f.i < f.retries - 1

\* A catch block that waits after every error, the last attempt's included.
ShouldRetry_Always(v, f, err) == TRUE

\* Whether the catch block waits and loops after the error of attempt i.
ShouldRetry(v, f, err) ==
  IF v = "index" THEN f.i # f.retries - 1
  ELSE err.code = RateLimitCode /\ f.i < f.retries - 1

\* return await fn(): fn resolved with val.
RetryOnReturn(f, val) ==
  [f EXCEPT !.state = "resolved", !.value = val]

\* A catch block that rethrows a new error made from the caught one.
RetryOnThrow_Wrapped(v, f, err) ==
  IF ShouldRetry(v, f, err) THEN [f EXCEPT !.state = "waiting"]
  ELSE [f EXCEPT !.state = "rejected",
                 !.error = Error("Retries exhausted: " \o err.message)]

\* fn threw err: wait for the delay, or rethrow err.
RetryOnThrow(v, f, err) ==
  IF ShouldRetry(v, f, err) THEN [f EXCEPT !.state = "waiting"]
  ELSE [f EXCEPT !.state = "rejected", !.error = err]

\* The delay has passed: next iteration.
RetryAfterDelay(f) == LoopTest([f EXCEPT !.i = @ + 1])

\* What has been observed of one retryRequest call: the invocations of fn,
\* how many returned (oks), how many threw (fails), how many threw a
\* rate-limit error (rateFails), the delays waited, and what the last
\* invocation produced.
NoObs ==
  [invoked |-> 0, oks |-> 0, fails |-> 0, rateFails |-> 0, waits |-> 0,
   lastOk |-> FALSE, lastValue |-> NoRef, lastError |-> NoError]

ObsReturn(o, val) ==
  [o EXCEPT !.invoked = @ + 1, !.oks = @ + 1, !.lastOk = TRUE,
            !.lastValue = val, !.lastError = NoError]

ObsThrow(o, err) ==
  [o EXCEPT !.invoked = @ + 1, !.fails = @ + 1,
            !.rateFails = IF err.code = RateLimitCode THEN @ + 1 ELSE @,
            !.lastOk = FALSE, !.lastValue = NoRef, !.lastError = err]

(* ------------------------------------------------------------------ *)
(* Process configuration                                               *)
(* ------------------------------------------------------------------ *)

\* Strings whose characters matter are sequences of characters.
ActPrefix == << "a", "c", "t", "_" >>

\* process.env.AD_ACCOUNT_ID: unset, without the prefix, well-formed.
AccountIds == { << >>, << "1", "2" >>, ActPrefix \o << "1", "2" >> }

\* process.env.FACEBOOK_ACCESS_TOKEN: unset or set.
AccessTokens == { "", "EAAB" }

\* String.prototype.startsWith
StartsWith(s, p) == Len(s) >= Len(p) /\ SubSeq(s, 1, Len(p)) = p

\* The process state after the top-level code of the program has run.
StartupCheck(v, token, account) ==
  IF v = "index" /\ (token = "" \/ account = << >>) THEN "exited"
  ELSE "listening"

(* ------------------------------------------------------------------ *)
(* POST /create-ad: payloads and responses                             *)
(* ------------------------------------------------------------------ *)

NoLocals ==
  [imageHash |-> NoRef, campaign |-> NoRef, adSet |-> NoRef,
   creative |-> NoRef, ad |-> NoRef]

NoResponse == [status |-> 0]

\* The creation payload of each remote operation.
CampaignPayload(v, b) ==
  [name |-> b.campaignName,
   objective |-> IF v = "index" THEN "OUTCOME_TRAFFIC" ELSE "LEAD_GENERATION",
   status |-> "PAUSED"]

AdSetPayload(v, b, l) ==
  [name |-> b.adSetName, campaign_id |-> l.campaign,
   optimization_goal |-> IF v = "index" THEN "LINK_CLICKS" ELSE "LEAD_GENERATION",
   billing_event |-> "IMPRESSIONS", status |-> "PAUSED"]

CreativePayload(v, b, l) ==
  IF v = "index"
    THEN [name |-> b.creativeTitle, page_id |-> b.pageId, link |-> b.link,
          message |-> b.creativeBody, image_hash |-> l.imageHash]
  ELSE [name |-> b.creativeTitle, page_id |-> b.pageId,
        link |-> "https://www.example.com", message |-> b.creativeBody]

\* A createAd payload that creates the ad in a live state.
AdPayload_Active(v, b, l) ==
  [name |-> b.adName, adset_id |-> l.adSet, creative_id |-> l.creative,
   status |-> "ACTIVE"]

AdPayload(v, b, l) ==
  [name |-> b.adName, adset_id |-> l.adSet, creative_id |-> l.creative,
   status |-> "PAUSED"]

Payload(v, op, b, l) ==
  CASE op = "uploadImage" -> [url |-> b.imageUrl]
    [] op = "createCampaign" -> CampaignPayload(v, b)
    [] op = "createAdSet" -> AdSetPayload(v, b, l)
    [] op = "createAdCreative" -> CreativePayload(v, b, l)
    [] op = "createAd" -> AdPayload(v, b, l)

\* res.status(400).json({ errors: errors.array() })
Response400(errs) == [status |-> 400, errors |-> errs]

\* res.json(...) after the last step.
ResponseOk(v, l) ==
  IF v = "index"
    THEN [status |-> 200, success |-> TRUE, campaignId |-> l.campaign,
          adSetId |-> l.adSet, creativeId |-> l.creative, adId |-> l.ad]
  ELSE [status |-> 200,
        message |-> << "Ad created successfully! Campaign ID: ", l.campaign,
                       ", Ad ID: ", l.ad >>]

\* A catch block that forgets res.status(500).
Response500_NoStatus(v, err) ==
  IF v = "index"
    THEN [status |-> 200, error |-> "Ad creation failed",
          details |-> IF err.respMessage \notin {undefined, ""}
                        THEN err.respMessage ELSE err.message,
          fbtrace_id |-> err.fbtrace_id]
  ELSE [status |-> 200, error |-> err.message]

\* The catch block of the handler.
Response500(v, err) ==
  IF v = "index"
    THEN [status |-> 500, error |-> "Ad creation failed",
          details |-> IF err.respMessage \notin {undefined, ""}
                        THEN err.respMessage ELSE err.message,
          fbtrace_id |-> err.fbtrace_id]
  ELSE [status |-> 500, error |-> err.message]

\* The error uploadImage throws for a fetch outcome that is not a hash.
UploadError(outcome) ==
  LET inner ==
        CASE outcome = "data_error" -> "Image upload failed: {\"code\":100}"
          [] outcome = "no_hash" -> "No image hash returned from upload"
          [] outcome = "network" -> "socket hang up"
  IN Error("Image upload error: " \o inner)

\* The step after a step that succeeded ("respond" after the last one).
NextStep(op) ==
  CASE op = "uploadImage" -> "createCampaign"
    [] op = "createCampaign" -> "createAdSet"
    [] op = "createAdSet" -> "createAdCreative"
    [] op = "createAdCreative" -> "createAd"
    [] op = "createAd" -> "respond"

\* The handler's local that holds the result of a step.
Assign(l, op, val) ==
  CASE op = "uploadImage" -> [l EXCEPT !.imageHash = val]
    [] op = "createCampaign" -> [l EXCEPT !.campaign = val]
    [] op = "createAdSet" -> [l EXCEPT !.adSet = val]
    [] op = "createAdCreative" -> [l EXCEPT !.creative = val]
    [] op = "createAd" -> [l EXCEPT !.ad = val]

(* ------------------------------------------------------------------ *)
(* State                                                               *)
(* ------------------------------------------------------------------ *)

VARIABLES
  variant,      \* which program runs: "index" or "part000"
  accessToken,  \* process.env.FACEBOOK_ACCESS_TOKEN
  adAccountId,  \* process.env.AD_ACCOUNT_ID
  proc,         \* "boot", "exited", "listening" ("harness": retryRequest alone)
  inputs,       \* how many fields of the well-formed body clients may change
  faults,       \* how many more remote calls the remote API may fail
  live,         \* the requests that clients send
  pc,           \* per request: "idle", the step awaited, "done"
  req,          \* per request: the body the client sent
  body,         \* per request: req.body as the handler reads it
  rr,           \* per request: the running retryRequest call
  obs,          \* per request: what fn of that call has been seen to do
  loc,          \* per request: the handler's locals
  res,          \* per request: the response sent
  calls,        \* per request: the remote calls issued, in order
  remote        \* the resources the remote API has created

vars ==
  << variant, accessToken, adAccountId, inputs, faults, proc, live, pc, req, body, rr, obs,
     loc, res, calls, remote >>

NoBody == [f \in Fields |-> undefined]

\* As many failures as one request can meet: every step failing on every
\* attempt.
AllFaults == DefaultRetries * Cardinality(Steps)

Init ==
  /\ variant \in Variants
  /\ accessToken \in AccessTokens
  /\ adAccountId \in AccountIds
  /\ inputs = MaxBad
  /\ faults = AllFaults
  /\ proc = "boot"
  /\ live = {1}
  /\ pc = [r \in ReqIds |-> "idle"]
  /\ req = [r \in ReqIds |-> NoBody]
  /\ body = [r \in ReqIds |-> NoBody]
  /\ rr = [r \in ReqIds |-> IdleFrame]
  /\ obs = [r \in ReqIds |-> NoObs]
  /\ loc = [r \in ReqIds |-> NoLocals]
  /\ res = [r \in ReqIds |-> NoResponse]
  /\ calls = [r \in ReqIds |-> << >>]
  /\ remote = {}

(* ------------------------------------------------------------------ *)
(* Actions                                                             *)
(* ------------------------------------------------------------------ *)

\* The top-level code of the program, up to app.listen.
Startup ==
  /\ proc = "boot"
  /\ proc' = StartupCheck(variant, accessToken, adAccountId)
  /\ UNCHANGED << variant, accessToken, adAccountId, inputs, faults, live, pc, req, body, rr,
                  obs, loc, res, calls, remote >>

\* A handler that catches the failure of a step, logs it and goes on with the
\* next step.
Settle_ContinuesOnFailure(r, op, f, o) ==
  CASE f.state \in {"resolved", "rejected"} ->
         LET l == Assign(loc[r], op, f.value)
         IN /\ loc' = [loc EXCEPT ![r] = l]
            /\ IF NextStep(op) = "respond"
                 THEN /\ res' = [res EXCEPT ![r] = ResponseOk(variant, l)]
                      /\ pc' = [pc EXCEPT ![r] = "done"]
                      /\ rr' = [rr EXCEPT ![r] = f]
                      /\ obs' = [obs EXCEPT ![r] = o]
                 ELSE /\ res' = res
                      /\ pc' = [pc EXCEPT ![r] = NextStep(op)]
                      /\ rr' = [rr EXCEPT ![r] = RetryFrame(DefaultRetries)]
                      /\ obs' = [obs EXCEPT ![r] = NoObs]
    [] OTHER ->
         /\ rr' = [rr EXCEPT ![r] = f]
         /\ obs' = [obs EXCEPT ![r] = o]
         /\ UNCHANGED << pc, loc, res >>

\* A handler whose locals are declared outside the handler function, so that
\* all requests share them.
Settle_SharedLocals(r, op, f, o) ==
  CASE f.state = "resolved" ->
         LET l == Assign(loc[r], op, f.value)
         IN /\ loc' = [q \in ReqIds |-> l]
            /\ IF NextStep(op) = "respond"
                 THEN /\ res' = [res EXCEPT ![r] = ResponseOk(variant, l)]
                      /\ pc' = [pc EXCEPT ![r] = "done"]
                      /\ rr' = [rr EXCEPT ![r] = f]
                      /\ obs' = [obs EXCEPT ![r] = o]
                 ELSE /\ res' = res
                      /\ pc' = [pc EXCEPT ![r] = NextStep(op)]
                      /\ rr' = [rr EXCEPT ![r] = RetryFrame(DefaultRetries)]
                      /\ obs' = [obs EXCEPT ![r] = NoObs]
    [] f.state = "rejected" ->
         /\ res' = [res EXCEPT ![r] = Response500(variant, f.error)]
         /\ pc' = [pc EXCEPT ![r] = "done"]
         /\ rr' = [rr EXCEPT ![r] = f]
         /\ obs' = [obs EXCEPT ![r] = o]
         /\ loc' = loc
    [] OTHER ->
         /\ rr' = [rr EXCEPT ![r] = f]
         /\ obs' = [obs EXCEPT ![r] = o]
         /\ UNCHANGED << pc, loc, res >>

\* A handler whose catch block logs the error and sends no response.
Settle_NoResponseOnFailure(r, op, f, o) ==
  CASE f.state = "resolved" ->
         LET l == Assign(loc[r], op, f.value)
         IN /\ loc' = [loc EXCEPT ![r] = l]
            /\ IF NextStep(op) = "respond"
                 THEN /\ res' = [res EXCEPT ![r] = ResponseOk(variant, l)]
                      /\ pc' = [pc EXCEPT ![r] = "done"]
                      /\ rr' = [rr EXCEPT ![r] = f]
                      /\ obs' = [obs EXCEPT ![r] = o]
                 ELSE /\ res' = res
                      /\ pc' = [pc EXCEPT ![r] = NextStep(op)]
                      /\ rr' = [rr EXCEPT ![r] = RetryFrame(DefaultRetries)]
                      /\ obs' = [obs EXCEPT ![r] = NoObs]
    [] f.state = "rejected" ->
         /\ pc' = [pc EXCEPT ![r] = "done"]
         /\ rr' = [rr EXCEPT ![r] = f]
         /\ obs' = [obs EXCEPT ![r] = o]
         /\ UNCHANGED << loc, res >>
    [] OTHER ->
         /\ rr' = [rr EXCEPT ![r] = f]
         /\ obs' = [obs EXCEPT ![r] = o]
         /\ UNCHANGED << pc, loc, res >>

\* The handler runs from the state after an awaited call settled to its next
\* await or to its response. f and o are the retryRequest call and its
\* observation after the call of step op settled.
Settle(r, op, f, o) ==
  CASE f.state = "resolved" ->
         LET l == Assign(loc[r], op, f.value)
         IN /\ loc' = [loc EXCEPT ![r] = l]
            /\ IF NextStep(op) = "respond"
                 THEN /\ res' = [res EXCEPT ![r] = ResponseOk(variant, l)]
                      /\ pc' = [pc EXCEPT ![r] = "done"]
                      /\ rr' = [rr EXCEPT ![r] = f]
                      /\ obs' = [obs EXCEPT ![r] = o]
                 ELSE /\ res' = res
                      /\ pc' = [pc EXCEPT ![r] = NextStep(op)]
                      /\ rr' = [rr EXCEPT ![r] = RetryFrame(DefaultRetries)]
                      /\ obs' = [obs EXCEPT ![r] = NoObs]
    [] f.state = "rejected" ->
         /\ res' = [res EXCEPT ![r] = Response500(variant, f.error)]
         /\ pc' = [pc EXCEPT ![r] = "done"]
         /\ rr' = [rr EXCEPT ![r] = f]
         /\ obs' = [obs EXCEPT ![r] = o]
         /\ loc' = loc
    [] OTHER ->
         /\ rr' = [rr EXCEPT ![r] = f]
         /\ obs' = [obs EXCEPT ![r] = o]
         /\ UNCHANGED << pc, loc, res >>

\* POST /create-ad arrives: the validation chains run, then the handler up
\* to its first await.
Receive(r) ==
  /\ proc = "listening"
  /\ r \in live
  /\ pc[r] = "idle"
  /\ \E b \in {c \in Bodies : Cardinality(Differing(c)) <= inputs} :
       LET errs == validationResult(variant, b)
           clean == Sanitized(variant, b)
       IN /\ req' = [req EXCEPT ![r] = b]
          /\ body' = [body EXCEPT ![r] = clean]
          /\ IF errs # << >>
               THEN /\ res' = [res EXCEPT ![r] = Response400(errs)]
                    /\ pc' = [pc EXCEPT ![r] = "done"]
                    /\ rr' = rr
             ELSE IF variant = "index"
               THEN IF ~StartsWith(adAccountId, ActPrefix)
                      THEN /\ res' = [res EXCEPT ![r] =
                                 Response500(variant,
                                   Error("Invalid adAccountId format. Must start with \"act_\""))]
                           /\ pc' = [pc EXCEPT ![r] = "done"]
                           /\ rr' = rr
                    ELSE /\ res' = res
                         /\ pc' = [pc EXCEPT ![r] = "uploadImage"]
                         /\ rr' = rr
             ELSE /\ res' = res
                  /\ pc' = [pc EXCEPT ![r] = "createCampaign"]
                  /\ rr' = [rr EXCEPT ![r] = RetryFrame(DefaultRetries)]
  /\ UNCHANGED << variant, accessToken, adAccountId, inputs, faults, proc, live, obs, loc,
                  calls, remote >>

\* await uploadImage(imageUrl): one fetch, not wrapped in retryRequest.
UploadImage(r) ==
  /\ pc[r] = "uploadImage"
  /\ calls' = [calls EXCEPT ![r] =
       Append(@, [op |-> "uploadImage",
                  payload |-> Payload(variant, "uploadImage", body[r], loc[r])])]
  /\ \E outcome \in UploadOutcomes :
       IF outcome = "ok"
         THEN LET val == Ref("uploadImage", Cardinality(remote) + 1)
              IN /\ remote' = remote \cup {[ref |-> val, by |-> r]}
                 /\ loc' = [loc EXCEPT ![r] = Assign(@, "uploadImage", val)]
                 /\ pc' = [pc EXCEPT ![r] = NextStep("uploadImage")]
                 /\ rr' = [rr EXCEPT ![r] = RetryFrame(DefaultRetries)]
                 /\ res' = res
                 /\ faults' = faults
       ELSE /\ faults > 0
            /\ faults' = faults - 1
            /\ res' = [res EXCEPT ![r] = Response500(variant, UploadError(outcome))]
            /\ pc' = [pc EXCEPT ![r] = "done"]
            /\ UNCHANGED << remote, loc, rr >>
  /\ UNCHANGED << variant, accessToken, adAccountId, inputs, proc, live, req, body, obs >>

\* A catch block that deletes what the request created before it responds.
Catch_Compensates(r, rem, f) ==
  IF f.state = "rejected" THEN {x \in rem : x.by # r} ELSE rem

\* The remote resources after retryRequest f of request r caught an error:
\* neither retryRequest nor the catch block of the handler issues a remote
\* call, so the resources rem stay as they are.
Catch(r, rem, f) == rem

\* One invocation of fn inside retryRequest for step op: the remote call is
\* issued and settles, and the handler runs on to its next await.
CreateStep(r, op) ==
  /\ pc[r] = op
  /\ rr[r].state = "calling"
  /\ calls' = [calls EXCEPT ![r] =
       Append(@, [op |-> op, payload |-> Payload(variant, op, body[r], loc[r])])]
  /\ \/ LET val == Ref(op, Cardinality(remote) + 1)
        IN /\ remote' = remote \cup {[ref |-> val, by |-> r]}
           /\ faults' = faults
           /\ Settle(r, op, RetryOnReturn(rr[r], val), ObsReturn(obs[r], val))
     \/ \E err \in RemoteErrors(obs[r].invoked + 1) :
          /\ faults > 0
          /\ faults' = faults - 1
          /\ remote' = Catch(r, remote, RetryOnThrow(variant, rr[r], err))
          /\ Settle(r, op, RetryOnThrow(variant, rr[r], err), ObsThrow(obs[r], err))
  /\ UNCHANGED << variant, accessToken, adAccountId, inputs, proc, live, req, body >>

CreateCampaign(r) == CreateStep(r, "createCampaign")
CreateAdSet(r) == CreateStep(r, "createAdSet")
CreateAdCreative(r) == CreateStep(r, "createAdCreative")
CreateAd(r) == CreateStep(r, "createAd")

\* setTimeout(resolve, delay) fires inside retryRequest.
Delay(r) ==
  /\ rr[r].state = "waiting"
  /\ rr' = [rr EXCEPT ![r] = RetryAfterDelay(@)]
  /\ obs' = [obs EXCEPT ![r].waits = @ + 1]
  /\ UNCHANGED << variant, accessToken, adAccountId, inputs, faults, proc, live, pc, req, body,
                  loc, res, calls, remote >>

Next ==
  \/ Startup
  \/ \E r \in ReqIds :
       \/ Receive(r)
       \/ UploadImage(r)
       \/ CreateCampaign(r)
       \/ CreateAdSet(r)
       \/ CreateAdCreative(r)
       \/ CreateAd(r)
       \/ Delay(r)

Spec == Init /\ [][Next]_vars

(* ------------------------------------------------------------------ *)
(* retryRequest on its own: any retries, any operation                 *)
(* ------------------------------------------------------------------ *)

\* retryRequest(fn, retries) has been called with some retries; fn is an
\* operation whose every invocation may return or throw.
InitRetry ==
  /\ variant \in Variants
  /\ accessToken = "EAAB"
  /\ adAccountId = ActPrefix \o << "1", "2" >>
  /\ inputs = 0
  /\ faults = 0
  /\ proc = "harness"
  /\ live = {}
  /\ pc = [r \in ReqIds |-> IF r = 1 THEN "fn" ELSE "idle"]
  /\ req = [r \in ReqIds |-> NoBody]
  /\ body = [r \in ReqIds |-> NoBody]
  /\ \E n \in 0 .. MaxRetries :
       rr = [r \in ReqIds |-> IF r = 1 THEN RetryFrame(n) ELSE IdleFrame]
  /\ obs = [r \in ReqIds |-> NoObs]
  /\ loc = [r \in ReqIds |-> NoLocals]
  /\ res = [r \in ReqIds |-> NoResponse]
  /\ calls = [r \in ReqIds |-> << >>]
  /\ remote = {}

\* One invocation of fn: it returns a value or throws an error.
InvokeFn(r) ==
  /\ pc[r] = "fn"
  /\ rr[r].state = "calling"
  /\ LET at == obs[r].invoked + 1
     IN \/ /\ rr' = [rr EXCEPT ![r] = RetryOnReturn(@, Ref("fn", at))]
           /\ obs' = [obs EXCEPT ![r] = ObsReturn(@, Ref("fn", at))]
        \/ \E err \in RemoteErrors(at) :
             /\ rr' = [rr EXCEPT ![r] = RetryOnThrow(variant, @, err)]
             /\ obs' = [obs EXCEPT ![r] = ObsThrow(@, err)]
  /\ UNCHANGED << variant, accessToken, adAccountId, inputs, faults, proc, live, pc, req, body,
                  loc, res, calls, remote >>

NextRetry == \E r \in ReqIds : InvokeFn(r) \/ Delay(r)

SpecRetry == InitRetry /\ [][NextRetry]_vars

(* ------------------------------------------------------------------ *)
(* Two concurrent requests                                             *)
(* ------------------------------------------------------------------ *)

\* A correctly configured process that two clients send the well-formed
\* request to; the handlers interleave at their awaits.
InitConc ==
  /\ variant \in Variants
  /\ accessToken = "EAAB"
  /\ adAccountId = ActPrefix \o << "1", "2" >>
  /\ inputs = 0
  /\ faults = MaxFaults
  /\ proc = "boot"
  /\ live = ReqIds
  /\ pc = [r \in ReqIds |-> "idle"]
  /\ req = [r \in ReqIds |-> NoBody]
  /\ body = [r \in ReqIds |-> NoBody]
  /\ rr = [r \in ReqIds |-> IdleFrame]
  /\ obs = [r \in ReqIds |-> NoObs]
  /\ loc = [r \in ReqIds |-> NoLocals]
  /\ res = [r \in ReqIds |-> NoResponse]
  /\ calls = [r \in ReqIds |-> << >>]
  /\ remote = {}

SpecConc == InitConc /\ [][Next]_vars

(* ------------------------------------------------------------------ *)
(* Claims about retryRequest (checked under SpecRetry)                 *)
(* ------------------------------------------------------------------ *)

\* C1: in src/index.js, whatever errors the operation throws, retryRequest
\* keeps invoking it while fewer than `retries` invocations have failed, and
\* once an invocation returns, retryRequest has resolved with that
\* invocation's value, the operation has been invoked exactly (failures + 1)
\* times, and it returned exactly once (it is not invoked again).
C1_RetryThenSuccess ==
  (variant = "index" /\ pc[1] = "fn" /\ rr[1].retries >= 1) =>
    LET f == rr[1]
        o == obs[1]
    IN /\ (o.oks = 0 /\ o.fails < f.retries) => f.state \in {"calling", "waiting"}
       /\ o.oks >= 1 =>
            /\ f.state = "resolved"
            /\ f.value = o.lastValue
            /\ o.lastOk
            /\ o.oks = 1
            /\ o.fails < f.retries
            /\ o.invoked = o.fails + 1

\* C1 witness: in src/index.js an operation failed twice, with errors that
\* are not all rate-limit errors, and then returned.
C1_Witness ==
  /\ variant = "index"
  /\ pc[1] = "fn"
  /\ rr[1].state = "resolved"
  /\ obs[1].fails = 2
  /\ obs[1].rateFails < 2
  /\ obs[1].invoked = 3
  /\ rr[1].value = Ref("fn", 3)

\* Every failure so far is one the program retries on: any error in
\* src/index.js, a rate-limit error (code 17) in src/unnamed/part_000.
OnlyRetryableFailures(r) ==
  variant = "part000" => obs[r].rateFails = obs[r].fails

\* C2: with retries >= 1, while every invocation has failed (with any error in
\* src/index.js, with rate-limit errors in part_000), retryRequest has not
\* settled before the operation has been invoked `retries` times, it never
\* invokes it more often, and after the last invocation it has rejected with
\* the very error object that invocation threw.
C2_RetryExhausted ==
  (pc[1] = "fn" /\ rr[1].retries >= 1 /\ obs[1].oks = 0 /\ OnlyRetryableFailures(1)) =>
    LET f == rr[1]
        o == obs[1]
    IN /\ o.invoked <= f.retries
       /\ f.state # "resolved"
       /\ (f.state = "rejected") <=> (o.invoked = f.retries)
       /\ f.state = "rejected" =>
            /\ f.error = o.lastError
            /\ f.error.at = f.retries

\* C2 witness: in part_000 an operation threw rate-limit errors on each of at
\* least three invocations and retryRequest has rejected.
C2_Witness ==
  /\ variant = "part000"
  /\ pc[1] = "fn"
  /\ rr[1].retries >= 3
  /\ rr[1].state = "rejected"
  /\ obs[1].oks = 0
  /\ obs[1].rateFails = rr[1].retries

(* ------------------------------------------------------------------ *)
(* Claims about POST /create-ad (checked under Spec)                   *)
(* ------------------------------------------------------------------ *)

\* The steps of the handler of a program, in order.
Chain(v) == IF v = "index" THEN Steps ELSE CreateSteps

\* Step op of request r succeeded: the remote API returned a reference.
Succeeded(r, op) == \E x \in remote : x.by = r /\ x.ref.kind = op

\* The positions in the call log of request r of the calls of step op.
CallsOf(r, op) == {k \in 1 .. Len(calls[r]) : calls[r][k].op = op}

\* C3: every remote call a request has issued is a call of a step all of whose
\* predecessors in the chain have succeeded for that request; a request whose
\* response is sent and whose step did not succeed has called no later step;
\* in particular without a created campaign there is no call of createAdSet,
\* createAdCreative or createAd.
C3_StepsInOrder ==
  \A r \in ReqIds :
    /\ \A k \in 1 .. Len(calls[r]) :
         /\ calls[r][k].op \in Chain(variant)
         /\ \A p \in Chain(variant) :
              StepIndex(p) < StepIndex(calls[r][k].op) => Succeeded(r, p)
    /\ \A p \in Chain(variant) :
         (pc[r] = "done" /\ ~Succeeded(r, p)) =>
           \A q \in Steps : StepIndex(p) < StepIndex(q) => CallsOf(r, q) = {}
    /\ ~Succeeded(r, "createCampaign") =>
         CallsOf(r, "createAdSet") \cup CallsOf(r, "createAdCreative")
           \cup CallsOf(r, "createAd") = {}

\* C3 witness: campaign creation failed on all three attempts, the request
\* was answered 500 and no later step was called.
C3_Witness ==
  /\ pc[1] = "done"
  /\ res[1].status = 500
  /\ Cardinality(CallsOf(1, "createCampaign")) = 3
  /\ ~Succeeded(1, "createCampaign")
  /\ CallsOf(1, "createAdSet") = {}

\* The fields of a request body the claim C4 calls offending: a required text
\* field or the page id missing (absent or empty), a link or image URL that
\* is present and malformed.
Offending(b) ==
  {f \in TextFields \cup {"pageId"} : b[f] \in {undefined, ""}}
    \cup {f \in {"link", "imageUrl"} : b[f] = BadUrl}

\* C4 (as claimed): a request with an offending field causes no remote call
\* and is answered 400 with an error entry for every offending field.
C4_InvalidRequestRejected ==
  \A r \in ReqIds :
    (pc[r] # "idle" /\ Offending(req[r]) # {}) =>
      /\ calls[r] = << >>
      /\ res[r].status = 400
      /\ \A f \in Offending(req[r]) :
           \E k \in 1 .. Len(res[r].errors) : res[r].errors[k].path = f

\* The reference the remote API returned to request r for step op.
Returned(r, op) == {x.ref : x \in {y \in remote : y.by = r /\ y.ref.kind = op}}

\* The identifiers a successful run threads through its payloads.
IdsThreaded(r) ==
  /\ \A k \in CallsOf(r, "createAdSet") :
       Returned(r, "createCampaign") = {calls[r][k].payload.campaign_id}
  /\ \A k \in CallsOf(r, "createAd") :
       /\ Returned(r, "createAdSet") = {calls[r][k].payload.adset_id}
       /\ Returned(r, "createAdCreative") = {calls[r][k].payload.creative_id}

\* C5 (as claimed): in a successful run the payloads carry the identifiers this
\* request's earlier steps returned, and the response is success: true with
\* exactly these identifiers as campaignId, adSetId, creativeId and adId.
C5_IdsThreadedAndReported ==
  \A r \in ReqIds :
    res[r].status = 200 =>
      /\ IdsThreaded(r)
      /\ DOMAIN res[r] = {"status", "success", "campaignId", "adSetId", "creativeId", "adId"}
      /\ res[r].success = TRUE
      /\ Returned(r, "createCampaign") = {res[r].campaignId}
      /\ Returned(r, "createAdSet") = {res[r].adSetId}
      /\ Returned(r, "createAdCreative") = {res[r].creativeId}
      /\ Returned(r, "createAd") = {res[r].adId}

\* A step of request r has finally failed: retryRequest rejected, or the
\* upload was called and returned no image.
FinallyFailed(r) ==
  \/ rr[r].state = "rejected"
  \/ CallsOf(r, "uploadImage") # {} /\ ~Succeeded(r, "uploadImage")

\* C6: a response with status 200 has been sent only when every step of the
\* chain has succeeded for the request, and a request one of whose steps has
\* finally failed has the response 500.
C6_NoPartialSuccess ==
  \A r \in ReqIds :
    /\ res[r].status = 200 => \A p \in Chain(variant) : Succeeded(r, p)
    /\ FinallyFailed(r) => res[r].status = 500

\* C6 witness: campaign, ad set and creative were created, createAd finally
\* failed and the response is 500.
C6_Witness ==
  /\ Succeeded(1, "createCampaign")
  /\ Succeeded(1, "createAdSet")
  /\ Succeeded(1, "createAdCreative")
  /\ CallsOf(1, "createAd") # {}
  /\ rr[1].state = "rejected"
  /\ res[1].status = 500

\* C7 (as claimed): when a creation step has finally failed with a remote error
\* that carries a message and a trace identifier, the response is 500 with
\* details equal to the message and fbtrace_id equal to the trace identifier,
\* and after a failed ad-set creation no creative or ad call was made.
C7_FailureDetailsReported ==
  \A r \in ReqIds :
    (pc[r] = "done" /\ rr[r].state = "rejected"
       /\ rr[r].error.respMessage # undefined /\ rr[r].error.fbtrace_id # undefined) =>
      /\ res[r].status = 500
      /\ {"details", "fbtrace_id"} \subseteq DOMAIN res[r]
      /\ res[r].details = rr[r].error.respMessage
      /\ res[r].fbtrace_id = rr[r].error.fbtrace_id
      /\ ~Succeeded(r, "createAdSet") =>
           CallsOf(r, "createAdCreative") \cup CallsOf(r, "createAd") = {}

\* C8 (as claimed): a request without imageUrl whose other fields are those of
\* the well-formed request is not answered 400, causes no upload call, starts
\* the creation steps, and no createAdCreative payload has an image_hash field.
C8_ImageUrlOptional ==
  \A r \in ReqIds :
    (pc[r] # "idle" /\ req[r].imageUrl = undefined
       /\ Differing(req[r]) = {"imageUrl"}) =>
      /\ res[r].status # 400
      /\ CallsOf(r, "uploadImage") = {}
      /\ pc[r] \in CreateSteps \cup {"done"}
      /\ \A k \in CallsOf(r, "createAdCreative") :
           "image_hash" \notin DOMAIN calls[r][k].payload

\* C9 (as claimed): when an invocation of a creation call has thrown a
\* permanent error, retryRequest does not wait and retry: it has rejected with
\* that error, the response 500 is sent, and the step was invoked once (not
\* counting invocations that threw a rate-limit error before).
C9_PermanentErrorNotRetried ==
  \A r \in ReqIds :
    (pc[r] \in CreateSteps \cup {"done"} /\ obs[r].lastError.kind = "permanent") =>
      /\ rr[r].state = "rejected"
      /\ res[r].status = 500
      /\ rr[r].error = obs[r].lastError
      /\ obs[r].invoked = obs[r].rateFails + 1

\* C10 (as claimed): src/index.js checks the format of the account identifier
\* at process start, so that a process with a malformed AD_ACCOUNT_ID never
\* listens, and no handler answers with the format error.
C10_AccountIdCheckedAtStartup ==
  variant = "index" =>
    /\ proc = "listening" => StartsWith(adAccountId, ActPrefix)
    /\ \A r \in ReqIds :
         res[r].status = 500 =>
           res[r].details # "Invalid adAccountId format. Must start with \"act_\""

\* The text fields of a body that are empty once trimmed.
EmptyAfterTrim(b) == {f \in TextFields : Trim(ToStr(b[f])) = ""}

\* C11 (as claimed): a request with a text field that is empty after trimming
\* (absent, empty or whitespace only) is answered 400 and causes no remote
\* call.
C11_BlankTextRejected ==
  \A r \in ReqIds :
    (pc[r] # "idle" /\ EmptyAfterTrim(req[r]) # {}) =>
      /\ res[r].status = 400
      /\ calls[r] = << >>

\* The steps that create an object with a status.
StatusSteps == {"createCampaign", "createAdSet", "createAd"}

\* C12: every call of createCampaign, createAdSet and createAd a request has
\* issued, first attempts and retries alike and whatever the request body,
\* carries status PAUSED.
C12_AlwaysPaused ==
  \A r \in ReqIds :
    \A k \in 1 .. Len(calls[r]) :
      calls[r][k].op \in StatusSteps =>
        /\ "status" \in DOMAIN calls[r][k].payload
        /\ calls[r][k].payload.status = "PAUSED"

\* C12 witness: createAd was called a second time (a retry) for a request
\* whose body differs from the well-formed one, after the campaign and the ad
\* set were created.
C12_Witness ==
  /\ Cardinality(CallsOf(1, "createAd")) >= 2
  /\ Differing(req[1]) # {}
  /\ Succeeded(1, "createCampaign")
  /\ Succeeded(1, "createAdSet")

(* ------------------------------------------------------------------ *)
(* Claims about concurrent requests (checked under SpecConc)           *)
(* ------------------------------------------------------------------ *)

\* The references the remote API has returned to request r.
Owned(r) == {x.ref : x \in {y \in remote : y.by = r}}

\* The references request r has sent in its payloads.
SentIds(r) ==
  UNION { LET p == calls[r][k].payload
          IN {p[f] : f \in DOMAIN p \cap
                       {"campaign_id", "adset_id", "creative_id", "image_hash"}}
          : k \in 1 .. Len(calls[r]) }

\* The references in the success response of request r.
ResponseIds(r) ==
  IF res[r].status # 200 THEN {}
  ELSE IF "message" \in DOMAIN res[r] THEN {res[r].message[2], res[r].message[4]}
  ELSE {res[r].campaignId, res[r].adSetId, res[r].creativeId, res[r].adId}

\* C13: with two requests interleaving, every reference a request sends in a
\* payload or reports in its response was returned to that request and to no
\* other, and the outcome of a request follows from its own steps alone: it
\* is answered 200 exactly when it is done and all its own steps succeeded,
\* 500 only when one of its own steps finally failed, and it calls a step only
\* after its own earlier steps succeeded.
C13_RequestsIndependent ==
  \A r \in ReqIds :
    /\ SentIds(r) \cup ResponseIds(r) \subseteq Owned(r)
    /\ \A q \in ReqIds \ {r} : (SentIds(r) \cup ResponseIds(r)) \cap Owned(q) = {}
    /\ IdsThreaded(r)
    /\ (res[r].status = 200) <=>
         (pc[r] = "done" /\ \A p \in Chain(variant) : Succeeded(r, p))
    /\ res[r].status = 500 => FinallyFailed(r)
    /\ \A k \in 1 .. Len(calls[r]) : \A p \in Chain(variant) :
         StepIndex(p) < StepIndex(calls[r][k].op) => Succeeded(r, p)

\* C13 witness: request 1 created a campaign after request 2 created its
\* own and then finally failed, and request 2, whose ad was created after the
\* campaign of request 1, was answered 200.
C13_Witness ==
  /\ res[1].status = 500
  /\ res[2].status = 200
  /\ Succeeded(1, "createCampaign")
  /\ loc[2].campaign.n < loc[1].campaign.n
  /\ loc[1].campaign.n < loc[2].ad.n

\* The step whose call was the last one request r issued.
FailedStep(r) == calls[r][Len(calls[r])].op

\* C14 (as claimed): two requests whose creation steps finally failed at
\* different steps, with remote errors of the same message and trace
\* identifier, got different responses.
C14_FailureNamesStep ==
  \A r, q \in ReqIds :
    (/\ r # q
     /\ res[r].status = 500 /\ res[q].status = 500
     /\ rr[r].state = "rejected" /\ rr[q].state = "rejected"
     /\ FailedStep(r) # FailedStep(q)
     /\ rr[r].error.message = rr[q].error.message
     /\ rr[r].error.respMessage = rr[q].error.respMessage
     /\ rr[r].error.fbtrace_id = rr[q].error.fbtrace_id)
    => res[r] # res[q]

\* C15 (as claimed): the link of every createAdCreative payload of a request
\* with a well-formed link is the link of the request.
C15_CallerLinkUsed ==
  \A r \in ReqIds :
    IsURL(req[r].link) =>
      \A k \in CallsOf(r, "createAdCreative") :
        calls[r][k].payload.link = req[r].link

(* ------------------------------------------------------------------ *)
(* Further claims about retries                                        *)
(* ------------------------------------------------------------------ *)

\* C16 (as claimed, under SpecRetry): after an invocation threw a network
\* error while attempts remain, retryRequest waits or has gone on to the next
\* invocation; it has not rejected.
C16_NetworkErrorRetried ==
  (pc[1] = "fn" /\ obs[1].lastError.kind = "network"
     /\ obs[1].invoked < rr[1].retries) =>
    rr[1].state \in {"waiting", "calling"}

\* C17 (as claimed, under Spec): a request whose image upload finally failed
\* has invoked the upload as often as retryRequest allows.
C17_UploadRetried ==
  \A r \in ReqIds :
    (pc[r] = "done" /\ CallsOf(r, "uploadImage") # {}
       /\ ~Succeeded(r, "uploadImage")) =>
      Cardinality(CallsOf(r, "uploadImage")) = DefaultRetries

(* ------------------------------------------------------------------ *)
(* No compensation                                                     *)
(* ------------------------------------------------------------------ *)

\* The references the handler of request r holds in its locals.
Held(r) == {loc[r][f] : f \in DOMAIN loc[r]} \ {NoRef}

\* C18: every remote call of a request is an upload or a creation call, never
\* a delete or an update, and every resource a step of the request created is
\* still present remotely in every later state, the state in which the 500
\* response has been sent included.
C18_NeverCompensates ==
  \A r \in ReqIds :
    /\ \A k \in 1 .. Len(calls[r]) : calls[r][k].op \in Steps
    /\ Held(r) = Owned(r)

\* C18 witness: the campaign and the ad set were created, createAdCreative
\* finally failed, the response is 500 and both resources are still present.
C18_Witness ==
  /\ res[1].status = 500
  /\ rr[1].state = "rejected"
  /\ calls[1][Len(calls[1])].op = "createAdCreative"
  /\ {loc[1].campaign, loc[1].adSet} \subseteq Owned(1)
  /\ loc[1].campaign # NoRef
  /\ loc[1].adSet # NoRef

(* ------------------------------------------------------------------ *)
(* Waits of retryRequest                                               *)
(* ------------------------------------------------------------------ *)

\* C19: retryRequest waits only between attempts. While it waits, the last
\* invocation failed and another one is still allowed; when the operation is
\* about to be invoked every failed invocation before it was followed by one
\* wait; and once retryRequest has settled after n >= 1 invocations it has
\* waited n - 1 times, so nothing was waited after a success or after the
\* final failure.
C19_WaitsOnlyBetweenAttempts ==
  \A r \in ReqIds :
    /\ rr[r].state = "calling" => obs[r].waits = obs[r].invoked
    /\ rr[r].state = "waiting" =>
         /\ obs[r].waits = obs[r].invoked - 1
         /\ obs[r].invoked < rr[r].retries
         /\ ~obs[r].lastOk
    /\ (rr[r].state \in {"resolved", "rejected"} /\ obs[r].invoked >= 1) =>
         obs[r].waits = obs[r].invoked - 1

\* C19 witness: retryRequest rejected after three failed invocations and two
\* waits.
C19_Witness ==
  /\ pc[1] = "fn"
  /\ rr[1].state = "rejected"
  /\ obs[1].invoked = DefaultRetries
  /\ obs[1].waits = DefaultRetries - 1

(* ------------------------------------------------------------------ *)
(* Termination                                                         *)
(* ------------------------------------------------------------------ *)

\* What the handler of request r does once the call or the timer it awaits
\* has settled.
Progress(r) ==
  \/ UploadImage(r)
  \/ CreateCampaign(r)
  \/ CreateAdSet(r)
  \/ CreateAdCreative(r)
  \/ CreateAd(r)
  \/ Delay(r)

\* The program under the assumption that every remote call a handler awaits
\* eventually returns or fails and that every timer fires.
SpecLive == Init /\ [][Next]_vars /\ \A r \in ReqIds : WF_vars(Progress(r))

\* The statuses a response can carry.
Statuses == {200, 400, 500}

\* C20: every request that has arrived eventually has a response; the response
\* carries status 200, 400 or 500 and, once sent, is never replaced; and at
\* every moment each creation operation has been invoked at most three times
\* and the image upload at most once for the request.
C20_RespondsOnceBounded ==
  /\ \A r \in ReqIds : (pc[r] # "idle") ~> (res[r].status \in Statuses)
  /\ [][\A r \in ReqIds : res[r].status # 0 => res'[r] = res[r]]_vars
  /\ [](\A r \in ReqIds :
          /\ res[r].status \in Statuses \cup {0}
          /\ Cardinality(CallsOf(r, "uploadImage")) <= 1
          /\ \A op \in CreateSteps :
               Cardinality(CallsOf(r, op)) <= DefaultRetries)

\* C20 witness: the image was uploaded once, createAd was invoked three times
\* and finally failed, and the one response is 500.
C20_Witness ==
  /\ pc[1] = "done"
  /\ res[1].status = 500
  /\ Cardinality(CallsOf(1, "uploadImage")) = 1
  /\ Cardinality(CallsOf(1, "createAd")) = DefaultRetries

====
